---- MODULE Spec2Model ----
(***************************************************************************)
(* Job ingestion pipeline of the devotel-assignment repository:            *)
(* ProvidersService.load() (two adapters), JobsService.load() with its     *)
(* bulk find-or-create of companies and skills, and the job save, over a   *)
(* relational store with the unique constraints of the entities.           *)
(* Several load() runs may overlap; every await of the code is a step      *)
(* boundary.                                                               *)
(***************************************************************************)
EXTENDS Integers, Sequences, FiniteSets, TLC

\* ------------------------------------------------------------------ bounds
\* overlapping load() invocations
Runs == {1, 2}
\* total number of load() calls started in one behaviour
MaxLoads == 3
\* longest jobs array in a Provider1 payload
MaxPayload == 2

\* null of a string column; a nullable number is <<>> or <<n>>
NULL == "null"

\* ------------------------------------------------------------ sequences
Range(s) == {s[i] : i \in 1..Len(s)}

SeqsUpTo(S, n) == UNION {[1..k -> S] : k \in 0..n}

\* [...new Set(xs)]: distinct elements in order of first occurrence
RECURSIVE Distinct(_)
Distinct(s) ==
    IF s = <<>> THEN <<>>
    ELSE LET init == Distinct(SubSeq(s, 1, Len(s) - 1))
             last == s[Len(s)]
         IN IF last \in Range(init) THEN init ELSE Append(init, last)

\* array.flatMap over a sequence of sequences
RECURSIVE Flatten(_)
Flatten(ss) == IF ss = <<>> THEN <<>> ELSE Head(ss) \o Flatten(Tail(ss))

\* array.map
Map(F(_), s) == [i \in 1..Len(s) |-> F(s[i])]

\* ------------------------------------------------- Provider1 normalisation
\* symbol -> code table shared by both adapters
currencySymbolMap == [sym \in {"$", "EUR_SYM", "GBP_SYM"} |->
    CASE sym = "$" -> "USD" [] sym = "EUR_SYM" -> "EUR" [] OTHER -> "GBP"]

\* ---- text
\* A text is a sequence of one-character strings.
IsBlank(c) == c = " "

\* String.prototype.trim
RECURSIVE TrimStart(_)
TrimStart(t) == IF t # <<>> /\ IsBlank(Head(t)) THEN TrimStart(Tail(t)) ELSE t

RECURSIVE TrimEnd(_)
TrimEnd(t) ==
    IF t # <<>> /\ IsBlank(t[Len(t)]) THEN TrimEnd(SubSeq(t, 1, Len(t) - 1)) ELSE t

trim(t) == TrimEnd(TrimStart(t))

\* index of the first "," of t, 0 when there is none
RECURSIVE IndexOfComma(_, _)
IndexOfComma(t, from) ==
    IF from > Len(t) THEN 0
    ELSE IF t[from] = "," THEN from ELSE IndexOfComma(t, from + 1)

\* String.prototype.split(','): every comma separates
RECURSIVE split(_)
split(t) ==
    LET i == IndexOfComma(t, 1)
    IN IF i = 0 THEN <<t>>
       ELSE <<SubSeq(t, 1, i - 1)>> \o split(SubSeq(t, i + 1, Len(t)))

\* ---- results of a call that may throw
Throw(message) == [ok |-> FALSE, message |-> message]
Value(v) == [ok |-> TRUE, value |-> v]

\* ---- salary
\* A salary string "<minSym><min><minK> - <maxSym><max><maxK>" is held as its
\* six tokens, the numbers as integers, a suffix as "", "k" or "K".
\* salaryRegex matches [$ EUR_SYM GBP_SYM] as the currency, needs the same
\* symbol on the right (the back reference) and an optional k, any case.
RegexSymbols == {"$", "EUR_SYM", "GBP_SYM"}

NoMatch == [match |-> FALSE]

salaryRegex(rangeString) ==
    IF rangeString.minSym \in RegexSymbols /\ rangeString.maxSym = rangeString.minSym
    THEN [match |-> TRUE, currency |-> rangeString.minSym,
          min |-> rangeString.min, minK |-> rangeString.minK # "",
          max |-> rangeString.max, maxK |-> rangeString.maxK # ""]
    ELSE NoMatch

\* variant: the min > max check is missing
parseSalaryRangeUnchecked(rangeString) ==
    LET groups == salaryRegex(rangeString)
    IN IF ~groups.match
       THEN Throw("Invalid salary range format. Expected format: $minK - $maxK")
       ELSE Value([min |-> IF groups.minK THEN groups.min * 1000 ELSE groups.min,
                   max |-> IF groups.maxK THEN groups.max * 1000 ELSE groups.max,
                   currency |-> IF groups.currency \in DOMAIN currencySymbolMap
                                THEN currencySymbolMap[groups.currency]
                                ELSE groups.currency])

parseSalaryRange(rangeString) ==
    LET groups == salaryRegex(rangeString)
    IN IF ~groups.match
       THEN Throw("Invalid salary range format. Expected format: $minK - $maxK")
       ELSE LET min == IF groups.minK THEN groups.min * 1000 ELSE groups.min
                max == IF groups.maxK THEN groups.max * 1000 ELSE groups.max
                currencySymbol == groups.currency
            IN IF min > max
               THEN Throw("Minimum value cannot be greater than the maximum value.")
               ELSE Value([min |-> min, max |-> max,
                           currency |-> IF currencySymbol \in DOMAIN currencySymbolMap
                                        THEN currencySymbolMap[currencySymbol]
                                        ELSE currencySymbol])

\* variant: the value is always written in full
formatValuePlain(value) == [n |-> value, k |-> ""]

\* formatValue of toSalaryRange: number and suffix
formatValue(value) ==
    IF value >= 1000 /\ value % 1000 = 0
    THEN [n |-> value \div 1000, k |-> "k"]
    ELSE [n |-> value, k |-> ""]

toSalaryRange(salaryObject) ==
    LET symbols == {key \in DOMAIN currencySymbolMap :
                       currencySymbolMap[key] = salaryObject.currency}
    IN IF symbols = {} THEN Throw("Unsupported currency")
       ELSE LET currencySymbol == CHOOSE key \in symbols : TRUE
                minFormatted == formatValue(salaryObject.min)
                maxFormatted == formatValue(salaryObject.max)
            IN Value([minSym |-> currencySymbol, min |-> minFormatted.n,
                      minK |-> minFormatted.k,
                      maxSym |-> currencySymbol, max |-> maxFormatted.n,
                      maxK |-> maxFormatted.k])

\* ---- location
generateLocation(locationString) ==
    LET parts == Map(trim, split(locationString))
        city == IF Len(parts) >= 1 THEN parts[1] ELSE <<>>
        state == IF Len(parts) >= 2 THEN parts[2] ELSE <<>>
    IN IF city = <<>> \/ state = <<>>
       THEN Throw("Invalid location format. Expected format: City, State.")
       ELSE Value([city |-> city, state |-> state])

\* ---- job type
\* The characters of a type string of the payloads ('Full-Time' is written
\* "Full-Time" in the records and read character by character here).
CharsOf(type) ==
    CASE type = "full-time" -> <<"f", "u", "l", "l", "-", "t", "i", "m", "e">>
      [] type = "Full-Time" -> <<"F", "u", "l", "l", "-", "T", "i", "m", "e">>
      [] type = "FULL-TIME" -> <<"F", "U", "L", "L", "-", "T", "I", "M", "E">>
      [] type = "fUlL-tImE" -> <<"f", "U", "l", "L", "-", "t", "I", "m", "E">>
      [] type = "part-time" -> <<"p", "a", "r", "t", "-", "t", "i", "m", "e">>
      [] type = "Part-Time" -> <<"P", "a", "r", "t", "-", "T", "i", "m", "e">>
      [] type = "PART-TIME" -> <<"P", "A", "R", "T", "-", "T", "I", "M", "E">>
      [] type = "contract" -> <<"c", "o", "n", "t", "r", "a", "c", "t">>
      [] type = "Contract" -> <<"C", "o", "n", "t", "r", "a", "c", "t">>
      [] type = "CONTRACT" -> <<"C", "O", "N", "T", "R", "A", "C", "T">>
      [] type = "contract " -> <<"c", "o", "n", "t", "r", "a", "c", "t", " ">>
      [] type = "fulltime" -> <<"f", "u", "l", "l", "t", "i", "m", "e">>
      [] type = "full time" -> <<"f", "u", "l", "l", " ", "t", "i", "m", "e">>
      [] type = "Internship" ->
            <<"I", "n", "t", "e", "r", "n", "s", "h", "i", "p">>
      [] type = "" -> <<>>

UpperCase == <<"A", "B", "C", "D", "E", "F", "G", "H", "I", "J", "K", "L", "M",
               "N", "O", "P", "Q", "R", "S", "T", "U", "V", "W", "X", "Y", "Z">>

LowerCase == <<"a", "b", "c", "d", "e", "f", "g", "h", "i", "j", "k", "l", "m",
               "n", "o", "p", "q", "r", "s", "t", "u", "v", "w", "x", "y", "z">>

LowerOf(c) ==
    IF \E i \in DOMAIN UpperCase : UpperCase[i] = c
    THEN LowerCase[CHOOSE i \in DOMAIN UpperCase : UpperCase[i] = c]
    ELSE c

\* String.prototype.toLowerCase, on the characters of the string
toLowerCase(type) == Map(LowerOf, CharsOf(type))

\* the switch falls through to the end of the function instead of to a throw
getJobTypeUndefined(type) ==
    CASE toLowerCase(type) = CharsOf("full-time") -> Value("Full-Time")
      [] toLowerCase(type) = CharsOf("part-time") -> Value("Part-Time")
      [] toLowerCase(type) = CharsOf("contract") -> Value("Contract")
      [] OTHER -> Value(NULL)

getJobType(type) ==
    CASE toLowerCase(type) = CharsOf("full-time") -> Value("Full-Time")
      [] toLowerCase(type) = CharsOf("part-time") -> Value("Part-Time")
      [] toLowerCase(type) = CharsOf("contract") -> Value("Contract")
      [] OTHER -> Throw("Invalid job type")

\* ---- dates
\* A date string is held as [instant, format]: the instant it denotes, in
\* hours, and the way it is written: "toISOString" as Date.toISOString writes,
\* "ISODate" as yyyy-mm-dd (an instant at UTC midnight), "other" for any other
\* spelling Date accepts. new Date(string) keeps the instant only.
HoursPerDay == 24

NewDate(dateString) == dateString.instant

toISOString(date) == [instant |-> date, format |-> "toISOString"]

\* DateTime.fromJSDate(date).toISODate(): the calendar day of the instant in
\* the zone of the process, zone being its offset from UTC in hours
toISODate(date, zone) ==
    [instant |-> ((date + zone) \div HoursPerDay) * HoursPerDay, format |-> "ISODate"]

generateSkills(skills) == Map(LAMBDA item : [name |-> item], skills)

Provider1toJob(data) ==
    LET salary == parseSalaryRange(data.details.salaryRange)
        location == generateLocation(data.details.location)
        jobType == getJobType(data.details.type)
    IN IF ~salary.ok THEN salary
       ELSE IF ~location.ok THEN location
       ELSE IF ~jobType.ok THEN jobType
       ELSE Value([title |-> data.title,
                   provider |-> [name |-> "Provider1", jobId |-> data.jobId],
                   company |-> [name |-> data.company.name,
                                industry |-> data.company.industry,
                                website |-> NULL],
                   salary |-> salary.value,
                   isRemote |-> FALSE,
                   postedDate |-> NewDate(data.postedDate),
                   experienceYears |-> <<>>,
                   location |-> location.value,
                   skills |-> generateSkills(data.skills),
                   jobType |-> jobType.value])

Provider1fromJob(data) ==
    IF data.provider.name = "Provider1"
    THEN LET salaryRange == toSalaryRange(data.salary)
         IN IF ~salaryRange.ok THEN salaryRange
            ELSE Value([jobId |-> data.provider.jobId,
                        title |-> data.title,
                        details |-> [type |-> data.jobType,
                                     location |-> data.location.city \o <<",", " ">>
                                                    \o data.location.state,
                                     salaryRange |-> salaryRange.value],
                        company |-> [name |-> data.company.name,
                                     industry |-> data.company.industry],
                        skills |-> Map(LAMBDA s : s.name, data.skills),
                        postedDate |-> toISOString(data.postedDate)])
    ELSE Throw("This job cannot convert to this provider job.")

\* fetch() either throws InternalServerErrorException or returns the payload;
\* load() maps toJob over data.jobs and throws what the first failing toJob
\* throws.
TransportError == [error |-> TRUE]

\* array.map stops at the first element whose callback throws
FirstThrown(mapped) ==
    mapped[CHOOSE i \in 1..Len(mapped) :
               ~mapped[i].ok /\ \A j \in 1..(i - 1) : mapped[j].ok]

\* variant: records that cannot be mapped are left out
Provider1loadSkipping(response) ==
    IF response.error THEN [ok |-> FALSE, error |-> "InternalServerErrorException"]
    ELSE LET mapped == Map(Provider1toJob, response.jobs)
         IN [ok |-> TRUE,
             jobs |-> Map(LAMBDA r : r.value, SelectSeq(mapped, LAMBDA r : r.ok))]

Provider1load(response) ==
    IF response.error THEN [ok |-> FALSE, error |-> "InternalServerErrorException"]
    ELSE LET mapped == Map(Provider1toJob, response.jobs)
         IN IF \E i \in 1..Len(mapped) : ~mapped[i].ok
            THEN [ok |-> FALSE, error |-> FirstThrown(mapped).message]
            ELSE [ok |-> TRUE, jobs |-> Map(LAMBDA r : r.value, mapped)]

\* ------------------------------------------------- Provider2 normalisation
\* variant: the currency is taken as it comes
parseSalaryAnyCurrency(compensation) ==
    IF compensation.min > compensation.max
    THEN Throw("Minimum value cannot be greater than the maximum value.")
    ELSE Value([min |-> compensation.min, max |-> compensation.max,
                currency |-> compensation.currency])

parseSalary(compensation) ==
    IF compensation.min > compensation.max
    THEN Throw("Minimum value cannot be greater than the maximum value.")
    ELSE IF ~\E key \in DOMAIN currencySymbolMap :
                 currencySymbolMap[key] = compensation.currency
         THEN Throw("Unsupported currency")
         ELSE Value([min |-> compensation.min, max |-> compensation.max,
                     currency |-> compensation.currency])

\* toJob of a one-entry jobsList {[id]: job}, given as the entry <<id, job>>
Provider2toJob(entry) ==
    LET jobId == entry[1]
        job == entry[2]
        salary == parseSalary(job.compensation)
    IN IF ~salary.ok THEN salary
       ELSE Value([title |-> job.position,
                   provider |-> [name |-> "Provider2", jobId |-> jobId],
                   company |-> [name |-> job.employer.companyName,
                                industry |-> NULL,
                                website |-> job.employer.website],
                   salary |-> salary.value,
                   isRemote |-> job.location.remote,
                   postedDate |-> NewDate(job.datePosted),
                   experienceYears |-> <<job.requirements.experience>>,
                   location |-> [state |-> job.location.state,
                                 city |-> job.location.city],
                   skills |-> generateSkills(job.requirements.technologies),
                   jobType |-> NULL])

\* fromJob gives the one-entry jobsList as its entry <<id, job>>; zone is the
\* zone of the process, which toISODate reads.
Provider2fromJob(data, zone) ==
    IF data.provider.name = "Provider2"
    THEN Value(<<data.provider.jobId,
                 [position |-> data.title,
                  location |-> [state |-> data.location.state,
                                city |-> data.location.city,
                                remote |-> data.isRemote],
                  compensation |-> [min |-> data.salary.min,
                                    max |-> data.salary.max,
                                    currency |-> data.salary.currency],
                  employer |-> [companyName |-> data.company.name,
                                website |-> data.company.website],
                  requirements |-> [experience |-> data.experienceYears[1],
                                    technologies |-> Map(LAMBDA s : s.name, data.skills)],
                  datePosted |-> toISODate(data.postedDate, zone)]>>)
    ELSE Throw("This job cannot convert to this provider job.")

\* data.data.jobsList is held as Object.entries gives it: a sequence of
\* <<id, job>> with distinct ids.
Provider2load(response) ==
    IF response.error THEN [ok |-> FALSE, error |-> "InternalServerErrorException"]
    ELSE LET mapped == Map(Provider2toJob, response.jobsList)
         IN IF \E i \in 1..Len(mapped) : ~mapped[i].ok
            THEN [ok |-> FALSE, error |-> FirstThrown(mapped).message]
            ELSE [ok |-> TRUE, jobs |-> Map(LAMBDA r : r.value, mapped)]

\* ------------------------------------------------------ upstream payloads
\* "Austin, TX"
AustinTX == <<"A", "u", "s", "t", "i", "n", ",", " ", "T", "X">>

\* "<sym><min><minK> - <sym><max><maxK>"
SalaryText(sym, min, minK, max, maxK) ==
    [minSym |-> sym, min |-> min, minK |-> minK,
     maxSym |-> sym, max |-> max, maxK |-> maxK]

\* "$69k - $141k"
GoodDetails == [location |-> AustinTX, type |-> "Full-Time",
                salaryRange |-> SalaryText("$", 69, "k", 141, "k")]
\* "$100k - $90k": min > max
BadDetails == [location |-> AustinTX, type |-> "contract",
               salaryRange |-> SalaryText("$", 100, "k", 90, "k")]

P1Raw(jobId, title, company, skills, details) ==
    [jobId |-> jobId, title |-> title, details |-> details,
     company |-> [name |-> company, industry |-> "Tech"],
     skills |-> skills, postedDate |-> [instant |-> 0, format |-> "toISOString"]]

P1Jobs == {P1Raw("j1", "Dev", "Acme", <<"ts">>, GoodDetails),
           P1Raw("j2", "Lead", "Globex", <<"ts", "go">>, GoodDetails),
           P1Raw("j2", "Dev", "Globex", <<"go">>, BadDetails)}

P1Responses == {TransportError} \cup {[error |-> FALSE, jobs |-> js] : js \in SeqsUpTo(P1Jobs, MaxPayload)}

P2Raw(position, company, technologies, currency) ==
    [position |-> position,
     location |-> [city |-> "Boston", state |-> "MA", remote |-> TRUE],
     compensation |-> [min |-> 90000, max |-> 110000, currency |-> currency],
     employer |-> [companyName |-> company, website |-> "https://acme.example"],
     requirements |-> [experience |-> 4, technologies |-> technologies],
     datePosted |-> [instant |-> 24, format |-> "ISODate"]]

P2Lists == {<<>>,
            << <<"k1", P2Raw("Backend", "Acme", <<"ts">>, "USD")>> >>,
            << <<"k1", P2Raw("Backend", "Acme", <<"ts">>, "XXX")>> >>}

P2Responses == {TransportError} \cup {[error |-> FALSE, jobsList |-> l] : l \in P2Lists}

\* variant: adapter outputs gathered as with Promise.allSettled, a rejected
\* adapter contributing no jobs
ProvidersServiceLoadSettled(first, second) ==
    [ok |-> TRUE, jobs |-> IF second.ok THEN first \o second.jobs ELSE first]

\* variant: the second spread replaces the first instead of following it
ProvidersServiceLoadLast(first, second) ==
    IF ~second.ok THEN [ok |-> FALSE, error |-> second.error]
    ELSE [ok |-> TRUE, jobs |-> IF second.jobs = <<>> THEN first ELSE second.jobs]

\* ProvidersService.load(): [...(await p1.load()), ...(await p2.load())].
\* first is the resolved output of adapter 1; a rejection of adapter 2
\* rejects the whole call.
ProvidersServiceLoad(first, second) ==
    IF ~second.ok THEN [ok |-> FALSE, error |-> second.error]
    ELSE [ok |-> TRUE, jobs |-> first \o second.jobs]

\* variant: both adapters are started before either is awaited, as with
\* Promise.all([p1.load(), p2.load()])
Provider2InvokedAlways(first) == TRUE

\* this.provider2Service.load() is the second element of the array literal:
\* it is evaluated only when the await of adapter 1's load() did not throw
Provider2Invoked(first) == first.ok

\* one call of ProvidersService.load() on the responses the two upstreams
\* would give; invoked lists the adapters whose load() was called, in order
ProvidersServiceLoadOf(response1, response2) ==
    LET first == Provider1load(response1)
        invoked == IF Provider2Invoked(first)
                   THEN <<"Provider1", "Provider2">> ELSE <<"Provider1">>
    IN IF ~first.ok
       THEN [ok |-> FALSE, error |-> first.error, invoked |-> invoked]
       ELSE LET r == ProvidersServiceLoad(first.jobs, Provider2load(response2))
            IN IF r.ok
               THEN [ok |-> TRUE, jobs |-> r.jobs, invoked |-> invoked]
               ELSE [ok |-> FALSE, error |-> r.error, invoked |-> invoked]

\* what the upstream did, whatever the adapter makes of it
Provider1Fails(response) ==
    response.error \/ \E i \in 1..Len(response.jobs) : ~Provider1toJob(response.jobs[i]).ok

Provider2Fails(response) ==
    response.error \/ \E i \in 1..Len(response.jobsList) : ~Provider2toJob(response.jobsList[i]).ok

FaultOf(fetchFailed, fails) ==
    IF fetchFailed THEN "fetch" ELSE IF fails THEN "record" ELSE "none"

\* ---------------------------------------------------------------- storage
\* SERIAL primary key of a table that is never deleted from
NextId(table) == Cardinality(table) + 1

\* variant: the bulk read finds nothing
findByNone(table, names) == {}

\* repository.findBy({ name: In(names) })
findBy(table, names) == {row \in table : row.name \in Range(names)}

\* variant: the new row is filled with an industry and a website
CreateCompaniesFilled(names, firstId) ==
    {[id |-> firstId + i - 1, name |-> names[i], industry |-> "Tech",
      website |-> "https://acme.example"] : i \in 1..Len(names)}

\* companyRepository.create({ name }) for each new name
CreateCompanies(names, firstId) ==
    {[id |-> firstId + i - 1, name |-> names[i], industry |-> NULL, website |-> NULL] :
        i \in 1..Len(names)}

\* skillRepository.create({ name })
CreateSkills(names, firstId) ==
    {[id |-> firstId + i - 1, name |-> names[i]] : i \in 1..Len(names)}

NamesUnique(table, names) ==
    /\ \A i \in 1..Len(names) : \A row \in table : row.name # names[i]
    /\ \A i, j \in 1..Len(names) : names[i] = names[j] => i = j

\* variant: companies.name without its UNIQUE constraint
SaveCompaniesNoUnique(table, names) ==
    [ok |-> TRUE, table |-> table \cup CreateCompanies(names, NextId(table)),
     saved |-> CreateCompanies(names, NextId(table))]

\* companyRepository.save(newCompanyEntities): one transaction of INSERTs under
\* UNIQUE(name); a violation rolls the transaction back and rejects.
SaveCompanies(table, names) ==
    IF NamesUnique(table, names)
    THEN [ok |-> TRUE, table |-> table \cup CreateCompanies(names, NextId(table)),
          saved |-> CreateCompanies(names, NextId(table))]
    ELSE [ok |-> FALSE, table |-> table, saved |-> {}]

\* skillRepository.save(newSkillEntities), same constraint on skills.name
SaveSkills(table, names) ==
    IF NamesUnique(table, names)
    THEN [ok |-> TRUE, table |-> table \cup CreateSkills(names, NextId(table)),
          saved |-> CreateSkills(names, NextId(table))]
    ELSE [ok |-> FALSE, table |-> table, saved |-> {}]

\* new Map(existing.map((e) => [e.name, e]))
MapOf(rows) == [n \in {row.name : row \in rows} |-> CHOOSE row \in rows : row.name = n]

\* variant: the saved entities are not merged into the map
SetAllDropped(map, saved) == map

\* saved.forEach((e) => map.set(e.name, e))
SetAll(map, saved) ==
    [n \in DOMAIN map \cup {row.name : row \in saved} |->
        IF \E row \in saved : row.name = n
        THEN CHOOSE row \in saved : row.name = n
        ELSE map[n]]

\* variant: the lookup never finds its key
MapGetUndefined(map, key) == <<>>

\* map.get(key): <<value>>, or <<>> for undefined
MapGet(map, key) == IF key \in DOMAIN map THEN <<map[key]>> ELSE <<>>

\* names of a batch that the bulk read did not find, in batch order
RECURSIVE NotIn(_, _)
NotIn(names, map) ==
    IF names = <<>> THEN <<>>
    ELSE IF Head(names) \in DOMAIN map THEN NotIn(Tail(names), map)
         ELSE <<Head(names)>> \o NotIn(Tail(names), map)

companyNamesOf(jobEntities) == Distinct(Map(LAMBDA job : job.company.name, jobEntities))

skillNamesOf(jobEntities) ==
    Distinct(Map(LAMBDA s : s.name, Flatten(Map(LAMBDA job : job.skills, jobEntities))))

\* step 3 of load(): the job with its company and skills replaced by the
\* resolved entities (undefined skills filtered out)
PrepareJob(jobDto, companiesMap, skillsMap) ==
    [jobDto EXCEPT
        !.company = MapGet(companiesMap, jobDto.company.name),
        !.skills = Flatten(Map(LAMBDA skillDto : MapGet(skillsMap, skillDto.name),
                               jobDto.skills))]

\* the row INSERTed for a prepared job: company_id and the job_skills ids
JobRow(job, id) ==
    [job EXCEPT !.company = Map(LAMBDA c : c.id, job.company),
                !.skills = Map(LAMBDA s : s.id, job.skills)] @@ [id |-> id]

RefTaken(table, provider) == \E row \in table : row.provider = provider

\* INSERT of each job in order inside one transaction, under
\* UNIQUE(provider_name, provider_job_id)
RECURSIVE InsertJobs(_, _)
InsertJobs(table, jobsToSave) ==
    IF jobsToSave = <<>> THEN [ok |-> TRUE, table |-> table]
    ELSE IF RefTaken(table, Head(jobsToSave).provider)
         THEN [ok |-> FALSE, table |-> table]
         ELSE InsertJobs(table \cup {JobRow(Head(jobsToSave), NextId(table))},
                         Tail(jobsToSave))

\* variant: jobs without the unique index on the provider reference
SaveJobsNoUnique(table, jobsToSave) ==
    LET rows == [i \in 1..Len(jobsToSave) |-> JobRow(jobsToSave[i], NextId(table) + i - 1)]
    IN [ok |-> TRUE, table |-> table \cup Range(rows), saved |-> rows]

\* variant: INSERT ... ON CONFLICT DO NOTHING, a taken reference is skipped
RECURSIVE InsertJobsSkipping(_, _)
InsertJobsSkipping(table, jobsToSave) ==
    IF jobsToSave = <<>> THEN table
    ELSE IF RefTaken(table, Head(jobsToSave).provider)
         THEN InsertJobsSkipping(table, Tail(jobsToSave))
         ELSE InsertJobsSkipping(table \cup {JobRow(Head(jobsToSave), NextId(table))},
                                 Tail(jobsToSave))

SaveJobsSkipExisting(table, jobsToSave) ==
    [ok |-> TRUE, table |-> InsertJobsSkipping(table, jobsToSave), saved |-> <<>>]

\* variant: one autocommitted INSERT per job, rows before the failing one stay
RECURSIVE InsertJobsEach(_, _)
InsertJobsEach(table, jobsToSave) ==
    IF jobsToSave = <<>> THEN [ok |-> TRUE, table |-> table]
    ELSE IF RefTaken(table, Head(jobsToSave).provider)
         THEN [ok |-> FALSE, table |-> table]
         ELSE InsertJobsEach(table \cup {JobRow(Head(jobsToSave), NextId(table))},
                             Tail(jobsToSave))

SaveJobsPerRecord(table, jobsToSave) ==
    LET r == InsertJobsEach(table, jobsToSave)
    IN [ok |-> r.ok, table |-> r.table, saved |-> <<>>]

\* jobRepository.save(jobsToSave): the jobs carry no id, so every one is
\* INSERTed; the transaction commits all rows or none.
SaveJobs(table, jobsToSave) ==
    LET r == InsertJobs(table, jobsToSave)
    IN IF r.ok
       THEN [ok |-> TRUE, table |-> r.table,
             saved |-> [i \in 1..Len(jobsToSave) |->
                           JobRow(jobsToSave[i], NextId(table) + i - 1)]]
       ELSE [ok |-> FALSE, table |-> table, saved |-> <<>>]

\* variant: the empty-batch return is missing
NoJobsNever(jobEntities) == FALSE

\* if (!jobEntities || jobEntities.length === 0)
NoJobs(jobEntities) == Len(jobEntities) = 0

\* ------------------------------------------------------------------ state
\* ------------------------------------------------- settings and scheduler
\* A JavaScript value handed to setSetting or addJobFetchInterval.
\* Huge stands for 3000000000, a number above 2^31 - 1; StringValue for the string
\* '30000'. typeof gives 'number' for a number, for Huge and for NaN.
Number(n) == [kind |-> "number", n |-> n]

NaN == [kind |-> "NaN", n |-> 0]

Huge == [kind |-> "huge", n |-> 0]

StringValue == [kind |-> "string", n |-> 0]

JsNull == [kind |-> "null", n |-> 0]

typeof(value) ==
    CASE value.kind \in {"number", "NaN", "huge"} -> "number"
      [] value.kind = "string" -> "string"
      [] value.kind = "null" -> "object"

\* value < k and value > k on numbers: every comparison with NaN is false
LessThan(value, k) == value.kind = "number" /\ value.n < k

GreaterThan(value, k) ==
    \/ value.kind = "number" /\ value.n > k
    \/ value.kind = "huge"

\* if (value): 0, NaN and null are falsy
Truthy(value) ==
    CASE value.kind = "number" -> value.n # 0
      [] value.kind \in {"huge", "string"} -> TRUE
      [] value.kind \in {"NaN", "null"} -> FALSE

\* the jsonb column: the value goes through JSON, which writes NaN as null
jsonb(value) == IF value.kind = "NaN" THEN JsNull ELSE value

JobFetchScheduleInterval == "JobFetchScheduleInterval"

\* INSERT INTO public.settings (key, value)
\*   VALUES ('JobFetchScheduleInterval', '10000')
SeedUp(table) ==
    IF \E row \in table : row.key = JobFetchScheduleInterval
    THEN table
    ELSE table \cup {[key |-> JobFetchScheduleInterval, value |-> Number(10000)]}

\* DELETE from public.settings WHERE key = 'JobFetchScheduleInterval'
SeedDown(table) == {row \in table : row.key # JobFetchScheduleInterval}

validateSettingValue(key, value) ==
    IF key = JobFetchScheduleInterval
    THEN IF typeof(value) # "number"
            \/ LessThan(value, 10000) \/ GreaterThan(value, 86400000)
         THEN Throw("BadRequestException")
         ELSE Value(value)
    ELSE IF value.kind = "null"
         THEN Throw("BadRequestException")
         ELSE Value(value)

\* settingRepository.findOneBy({ key }): the row, or none
findOneBy(table, key) == {row \in table : row.key = key}

\* variant: the seeded default is returned whatever is stored
getSettingDefault(table, key) == Number(10000)

\* getSetting: the value of the row, or null
getSetting(table, key) ==
    IF findOneBy(table, key) = {} THEN JsNull
    ELSE (CHOOSE row \in findOneBy(table, key) : TRUE).value

\* setSetting(key, value): the validation, then findOneBy, then save.
\* repository lists the repository calls made.
setSetting(table, key, value) ==
    LET checked == validateSettingValue(key, value)
        found == findOneBy(table, key)
    IN IF ~checked.ok
       THEN [ok |-> FALSE, error |-> "BadRequestException", table |-> table,
             repository |-> <<>>]
       ELSE IF found = {}
       THEN [ok |-> FALSE, error |-> "NotFoundException", table |-> table,
             repository |-> <<"findOneBy">>]
       ELSE [ok |-> TRUE, error |-> "none",
             table |-> (table \ found) \cup {[key |-> key, value |-> jsonb(value)]},
             repository |-> <<"findOneBy", "save">>]

\* private readonly DEFAULT_MIN_INTERVAL = 10000; // 10 seconds
DEFAULT_MIN_INTERVAL == 10000

\* the longest delay a timer takes: 2^31 - 1 ms
TIMEOUT_MAX == 2147483647

JobFetch == "JobFetch"

\* setInterval(callback, milliseconds): the timer started. A delay that is
\* not a number from 1 to TIMEOUT_MAX (NaN, a number above 2^31 - 1) is
\* replaced by 1 ms.
setInterval(id, milliseconds) ==
    [id |-> id, delay |-> milliseconds,
     period |-> IF /\ milliseconds.kind = "number"
                   /\ milliseconds.n >= 1 /\ milliseconds.n <= TIMEOUT_MAX
                THEN milliseconds.n ELSE 1]

\* schedulerRegistry.doesExist('interval', name)
doesExist(registry, name) == \E entry \in registry : entry.name = name

\* schedulerRegistry.deleteInterval(name): clears the timer and forgets it
RegistryDelete(registry, active, name) ==
    [intervals |-> {entry \in registry : entry.name # name},
     timers |-> {t \in active :
                    \A entry \in registry : entry.name = name => entry.timer # t.id}]

\* addJobFetchInterval(milliseconds): the guard, the removal of a registered
\* 'JobFetch' interval, setInterval and schedulerRegistry.addInterval.
\* id is the identity of the timer setInterval returns.
addJobFetchInterval(registry, active, id, milliseconds) ==
    IF LessThan(milliseconds, DEFAULT_MIN_INTERVAL)
    THEN [threw |-> TRUE, returned |-> FALSE, created |-> FALSE,
          intervals |-> registry, timers |-> active]
    ELSE LET cleared == IF doesExist(registry, JobFetch)
                        THEN RegistryDelete(registry, active, JobFetch)
                        ELSE [intervals |-> registry, timers |-> active]
         IN [threw |-> FALSE, returned |-> TRUE, created |-> TRUE,
             intervals |-> cleared.intervals \cup {[name |-> JobFetch, timer |-> id]},
             timers |-> cleared.timers \cup {setInterval(id, milliseconds)}]

\* deleteInterval(name): false when no such interval is registered
deleteInterval(registry, active, name) ==
    IF ~doesExist(registry, name)
    THEN [returned |-> FALSE, intervals |-> registry, timers |-> active]
    ELSE [returned |-> TRUE,
          intervals |-> RegistryDelete(registry, active, name).intervals,
          timers |-> RegistryDelete(registry, active, name).timers]

\* getAllIntervals(): schedulerRegistry.getIntervals()
getAllIntervals(registry) == {entry.name : entry \in registry}

\* variant: the callback awaits load() outside any try block
callbackUncaught(rejected) == [escaped |-> rejected, logged |-> "none"]

\* the callback of the interval: try { await this.jobsService.load() }
\* catch (error) { this.logger.error(...) }
callback(rejected) ==
    [escaped |-> FALSE,
     logged |-> IF rejected THEN "Error executing scheduled job fetch JobFetch"
                ELSE "Successfully executed scheduled job fetch: JobFetch"]

VARIABLES
    companies,           \* table companies
    skills,              \* table skills
    jobs,                \* table jobs (with its job_skills rows)
    pc,                  \* per run: the await the run is suspended at
    jobEntities,         \* per run: the batch fetched so far
    companiesMap,        \* per run: existingCompaniesMap
    skillsMap,           \* per run: existingSkillsMap
    newCompanyEntities,  \* per run: names pushed to newCompanyEntities
    newSkillEntities,    \* per run: names pushed to newSkillEntities
    outcome,             \* per run: how load() settled
    logged,              \* per run: the error handed to logger.error
    upstreamFailed,      \* per run: an adapter's fetch or payload was bad
    fault,               \* per run: what was wrong upstream: "fetch" (the
                         \* request failed), "record" (a record that cannot
                         \* be mapped) or "none"
    queries,             \* per run: storage round trips issued
    loads,               \* load() calls started
    call,                \* the last call of an adapter function on its own:
                         \* its name, its argument and what it gave
    settings,            \* table settings
    intervals,           \* the intervals of the SchedulerRegistry, by name
    timers,              \* the timers running: identity, delay asked, period
    created,             \* timers created so far
    initStep,            \* onModuleInit: where it is and the setting it read
    running,             \* per slot: a tick's callback awaiting load(), or idle
    ticks,               \* ticks fired so far
    rejected,            \* loads started by a tick that rejected
    unhandled            \* an error left a tick's callback

\* the state of JobsService.load() and of the tables
loadVars == <<companies, skills, jobs, pc, jobEntities, companiesMap, skillsMap,
              newCompanyEntities, newSkillEntities, outcome, logged, upstreamFailed,
              fault, queries, loads>>

schedVars == <<settings, intervals, timers, created, initStep, running, ticks,
               rejected, unhandled>>

vars == <<companies, skills, jobs, pc, jobEntities, companiesMap, skillsMap,
          newCompanyEntities, newSkillEntities, outcome, logged, upstreamFailed,
          fault, queries, loads, call, settings, intervals, timers, created,
          initStep, running, ticks, rejected, unhandled>>

TickRuns == {1, 2}

NoCall == [fn |-> "none"]

NoQueries == [coFind |-> 0, coSave |-> 0, skFind |-> 0, skSave |-> 0, jobSave |-> 0]

Pending == [state |-> "pending"]
Resolved(v) == [state |-> "resolved", value |-> v]
\* throw new InternalServerErrorException('An error occurred while loading jobs.')
Rejected == [state |-> "rejected",
             error |-> "InternalServerErrorException",
             message |-> "An error occurred while loading jobs."]

EmptyMap == [n \in {} |-> NULL]

Init ==
    /\ companies = {}
    /\ skills = {}
    /\ jobs = {}
    /\ pc = [p \in Runs |-> "idle"]
    /\ jobEntities = [p \in Runs |-> <<>>]
    /\ companiesMap = [p \in Runs |-> EmptyMap]
    /\ skillsMap = [p \in Runs |-> EmptyMap]
    /\ newCompanyEntities = [p \in Runs |-> <<>>]
    /\ newSkillEntities = [p \in Runs |-> <<>>]
    /\ outcome = [p \in Runs |-> Pending]
    /\ logged = [p \in Runs |-> "none"]
    /\ upstreamFailed = [p \in Runs |-> FALSE]
    /\ fault = [p \in Runs |-> "none"]
    /\ queries = [p \in Runs |-> NoQueries]
    /\ loads = 0
    /\ call = NoCall
    /\ settings = SeedUp({})
    /\ intervals = {}
    /\ timers = {}
    /\ created = 0
    /\ initStep = [pc |-> "start", value |-> JsNull]
    /\ running = [r \in TickRuns |-> "idle"]
    /\ ticks = 0
    /\ rejected = 0
    /\ unhandled = FALSE

\* variant: the catch block rejects without logging the error
CatchUnlogged(p, error) ==
    /\ pc' = [pc EXCEPT ![p] = "thrown"]
    /\ logged' = [logged EXCEPT ![p] = "none"]
    /\ outcome' = [outcome EXCEPT ![p] =
                      [state |-> "rejected",
                       error |-> "InternalServerErrorException",
                       message |-> "An error occurred while loading jobs."]]

\* variant: the catch block logs the error and throws it again
CatchRethrow(p, error) ==
    /\ pc' = [pc EXCEPT ![p] = "thrown"]
    /\ logged' = [logged EXCEPT ![p] = error]
    /\ outcome' = [outcome EXCEPT ![p] =
                      [state |-> "rejected", error |-> error, message |-> error]]

\* the catch block of load(): log the error, reject with the fixed exception
Catch(p, error) ==
    /\ pc' = [pc EXCEPT ![p] = "thrown"]
    /\ logged' = [logged EXCEPT ![p] = error]
    /\ outcome' = [outcome EXCEPT ![p] = Rejected]

\* a caller invokes load()
Load(p) ==
    /\ pc[p] = "idle"
    /\ loads < MaxLoads
    /\ loads' = loads + 1
    /\ pc' = [pc EXCEPT ![p] = "provider1"]
    /\ UNCHANGED <<call, schedVars, companies, skills, jobs, jobEntities, companiesMap, skillsMap,
                   newCompanyEntities, newSkillEntities, outcome, logged,
                   upstreamFailed, fault, queries>>

\* await this.provider1Service.load()
Provider1Done(p) ==
    /\ pc[p] = "provider1"
    /\ \E response \in P1Responses :
          LET r == Provider1load(response)
          IN /\ upstreamFailed' = [upstreamFailed EXCEPT ![p] = Provider1Fails(response)]
             /\ fault' = [fault EXCEPT ![p] = FaultOf(response.error, Provider1Fails(response))]
             /\ IF Provider2Invoked(r)
                THEN /\ jobEntities' = [jobEntities EXCEPT ![p] =
                                           IF r.ok THEN r.jobs ELSE <<>>]
                     /\ pc' = [pc EXCEPT ![p] = "provider2"]
                     /\ UNCHANGED <<outcome, logged>>
                ELSE /\ Catch(p, r.error)
                     /\ UNCHANGED jobEntities
    /\ UNCHANGED <<call, schedVars, companies, skills, jobs, companiesMap, skillsMap,
                   newCompanyEntities, newSkillEntities, queries, loads>>

\* await this.provider2Service.load(), the concatenation, and the
\* empty-batch return of JobsService.load()
Provider2Done(p) ==
    /\ pc[p] = "provider2"
    /\ \E response \in P2Responses :
          LET r == ProvidersServiceLoad(jobEntities[p], Provider2load(response))
          IN /\ upstreamFailed' = [upstreamFailed EXCEPT ![p] = Provider2Fails(response)]
             /\ fault' = [fault EXCEPT ![p] = FaultOf(response.error, Provider2Fails(response))]
             /\ IF ~r.ok
                THEN /\ Catch(p, r.error)
                     /\ UNCHANGED jobEntities
                ELSE /\ jobEntities' = [jobEntities EXCEPT ![p] = r.jobs]
                     /\ UNCHANGED logged
                     /\ IF NoJobs(r.jobs)
                        THEN /\ pc' = [pc EXCEPT ![p] = "returned"]
                             /\ outcome' = [outcome EXCEPT ![p] = Resolved(<<>>)]
                        ELSE /\ pc' = [pc EXCEPT ![p] = "coFind"]
                             /\ UNCHANGED outcome
    /\ UNCHANGED <<call, schedVars, companies, skills, jobs, companiesMap, skillsMap,
                   newCompanyEntities, newSkillEntities, queries, loads>>

\* findOrCreateCompanies up to the save: await companyRepository.findBy(...)
\* and the loop that collects the names not found
FindCompanies(p) ==
    /\ pc[p] = "coFind"
    /\ LET companyNames == companyNamesOf(jobEntities[p])
           existingCompaniesMap == MapOf(findBy(companies, companyNames))
           new == NotIn(companyNames, existingCompaniesMap)
       IN /\ companiesMap' = [companiesMap EXCEPT ![p] = existingCompaniesMap]
          /\ newCompanyEntities' = [newCompanyEntities EXCEPT ![p] = new]
          /\ pc' = [pc EXCEPT ![p] = IF Len(new) > 0 THEN "coSave" ELSE "skFind"]
    /\ queries' = [queries EXCEPT ![p].coFind = @ + 1]
    /\ UNCHANGED <<call, schedVars, companies, skills, jobs, jobEntities, skillsMap,
                   newSkillEntities, outcome, logged, upstreamFailed, fault, loads>>

\* await this.companyRepository.save(newCompanyEntities) and the merge
SaveNewCompanies(p) ==
    /\ pc[p] = "coSave"
    /\ queries' = [queries EXCEPT ![p].coSave = @ + 1]
    /\ LET r == SaveCompanies(companies, newCompanyEntities[p])
       IN /\ companies' = r.table
          /\ IF r.ok
             THEN /\ companiesMap' = [companiesMap EXCEPT ![p] = SetAll(@, r.saved)]
                  /\ pc' = [pc EXCEPT ![p] = "skFind"]
                  /\ UNCHANGED <<outcome, logged>>
             ELSE /\ Catch(p, "QueryFailedError companies")
                  /\ UNCHANGED companiesMap
    /\ UNCHANGED <<call, schedVars, skills, jobs, jobEntities, skillsMap, newCompanyEntities,
                   newSkillEntities, upstreamFailed, fault, loads>>

\* findOrCreateSkills up to the save
FindSkills(p) ==
    /\ pc[p] = "skFind"
    /\ LET skillNames == skillNamesOf(jobEntities[p])
           existingSkillsMap == MapOf(findBy(skills, skillNames))
           new == NotIn(skillNames, existingSkillsMap)
       IN /\ skillsMap' = [skillsMap EXCEPT ![p] = existingSkillsMap]
          /\ newSkillEntities' = [newSkillEntities EXCEPT ![p] = new]
          /\ pc' = [pc EXCEPT ![p] = IF Len(new) > 0 THEN "skSave" ELSE "jobSave"]
    /\ queries' = [queries EXCEPT ![p].skFind = @ + 1]
    /\ UNCHANGED <<call, schedVars, companies, skills, jobs, jobEntities, companiesMap,
                   newCompanyEntities, outcome, logged, upstreamFailed, fault, loads>>

\* await this.skillRepository.save(newSkillEntities) and the merge
SaveNewSkills(p) ==
    /\ pc[p] = "skSave"
    /\ queries' = [queries EXCEPT ![p].skSave = @ + 1]
    /\ LET r == SaveSkills(skills, newSkillEntities[p])
       IN /\ skills' = r.table
          /\ IF r.ok
             THEN /\ skillsMap' = [skillsMap EXCEPT ![p] = SetAll(@, r.saved)]
                  /\ pc' = [pc EXCEPT ![p] = "jobSave"]
                  /\ UNCHANGED <<outcome, logged>>
             ELSE /\ Catch(p, "QueryFailedError skills")
                  /\ UNCHANGED skillsMap
    /\ UNCHANGED <<call, schedVars, companies, jobs, jobEntities, companiesMap, newCompanyEntities,
                   newSkillEntities, upstreamFailed, fault, loads>>

jobsToSaveOf(p) ==
    Map(LAMBDA jobDto : PrepareJob(jobDto, companiesMap[p], skillsMap[p]), jobEntities[p])

\* steps 3 and 4: prepare the jobs, await this.jobRepository.save(jobsToSave)
SaveJobEntities(p) ==
    /\ pc[p] = "jobSave"
    /\ queries' = [queries EXCEPT ![p].jobSave = @ + 1]
    /\ LET r == SaveJobs(jobs, jobsToSaveOf(p))
       IN /\ jobs' = r.table
          /\ IF r.ok
             THEN /\ pc' = [pc EXCEPT ![p] = "returned"]
                  /\ outcome' = [outcome EXCEPT ![p] = Resolved(r.saved)]
                  /\ UNCHANGED logged
             ELSE Catch(p, "QueryFailedError jobs")
    /\ UNCHANGED <<call, schedVars, companies, skills, jobEntities, companiesMap, skillsMap,
                   newCompanyEntities, newSkillEntities, upstreamFailed, fault, loads>>

\* the caller has the settled promise; the run's locals are gone
Settle(p) ==
    /\ pc[p] \in {"returned", "thrown"}
    /\ pc' = [pc EXCEPT ![p] = "idle"]
    /\ jobEntities' = [jobEntities EXCEPT ![p] = <<>>]
    /\ companiesMap' = [companiesMap EXCEPT ![p] = EmptyMap]
    /\ skillsMap' = [skillsMap EXCEPT ![p] = EmptyMap]
    /\ newCompanyEntities' = [newCompanyEntities EXCEPT ![p] = <<>>]
    /\ newSkillEntities' = [newSkillEntities EXCEPT ![p] = <<>>]
    /\ outcome' = [outcome EXCEPT ![p] = Pending]
    /\ logged' = [logged EXCEPT ![p] = "none"]
    /\ upstreamFailed' = [upstreamFailed EXCEPT ![p] = FALSE]
    /\ fault' = [fault EXCEPT ![p] = "none"]
    /\ queries' = [queries EXCEPT ![p] = NoQueries]
    /\ UNCHANGED <<call, schedVars, companies, skills, jobs, loads>>

Next ==
    \E p \in Runs :
        \/ Load(p)
        \/ Provider1Done(p)
        \/ Provider2Done(p)
        \/ FindCompanies(p)
        \/ SaveNewCompanies(p)
        \/ FindSkills(p)
        \/ SaveNewSkills(p)
        \/ SaveJobEntities(p)
        \/ Settle(p)

Spec == Init /\ [][Next]_vars

\* ------------------------------------------- the adapters on their own
\* The functions of the two adapters are pure: each is called here on every
\* argument of a bounded set, once from the initial state, the call and what
\* it gave being kept in call.
MaxText == 5

Chars == {"A", "B", " ", ","}

Texts == SeqsUpTo(Chars, MaxText)

\* YEN_SYM is a symbol salaryRegex does not admit
Symbols == RegexSymbols \cup {"YEN_SYM"}

Amounts == {0, 1, 69, 141, 1000, 2000}

Suffixes == {"", "k", "K"}

SalaryTexts == [minSym : Symbols, min : Amounts, minK : Suffixes,
                maxSym : Symbols, max : Amounts, maxK : Suffixes]

Types == {"full-time", "Full-Time", "FULL-TIME", "fUlL-tImE", "part-time",
          "Part-Time", "PART-TIME", "contract", "Contract", "CONTRACT",
          "contract ", "fulltime", "full time", "Internship", ""}

\* "Austin, TX", "A,B", "A, B", "A,B,A", "A"
JobLocations == {AustinTX, <<"A", ",", "B">>, <<"A", ",", " ", "B">>,
                 <<"A", ",", "B", ",", "A">>, <<"A">>}

JobSalaries == {SalaryText(sym, min, minK, max, maxK) :
                   sym \in {"$", "YEN_SYM"}, min \in {1, 1000}, minK \in {"", "k"},
                   max \in {2, 2000}, maxK \in {"", "k"}}

PostedDates == {[instant |-> 0, format |-> "toISOString"],
                [instant |-> 0, format |-> "other"]}

P1Inputs == {[jobId |-> "j1", title |-> "Dev", details |-> details,
              company |-> [name |-> "Acme", industry |-> "Tech"],
              skills |-> <<"ts", "go">>, postedDate |-> postedDate] :
                details \in [location : JobLocations, type : Types,
                             salaryRange : JobSalaries],
                postedDate \in PostedDates}

\* "2024-01-02" and the same day at 10:00Z
DatesPosted == {[instant |-> 24, format |-> "ISODate"],
                [instant |-> 34, format |-> "other"]}

P2Inputs == {<<"k1", [position |-> "Backend",
                      location |-> [city |-> "Boston", state |-> "MA", remote |-> TRUE],
                      compensation |-> compensation,
                      employer |-> [companyName |-> "Acme",
                                    website |-> "https://acme.example"],
                      requirements |-> [experience |-> 4, technologies |-> <<"ts">>],
                      datePosted |-> datePosted]>> :
                compensation \in [min : {90000, 110000}, max : {90000, 110000},
                                  currency : {"USD", "EUR", "XXX", "$"}],
                datePosted \in DatesPosted}

\* offsets from UTC, in hours, of the zone the process runs in
Zones == {-5, 0, 2}

\* the jobs the two adapters give
NormalizedJobs ==
    {r.value : r \in {x \in {Provider1toJob(data) : data \in P1Inputs} : x.ok}}
    \cup {r.value : r \in {x \in {Provider2toJob(entry) : entry \in P2Inputs} : x.ok}}

CallProvider1Load ==
    /\ call = NoCall
    /\ \E response \in P1Responses :
          call' = [fn |-> "Provider1.load", arg |-> response,
                   result |-> Provider1load(response)]
    /\ UNCHANGED <<loadVars, schedVars>>

\* jobsLists of two entries, each a job that maps or one of a currency that
\* does not
P2Pairs ==
    {<< <<"k1", P2Raw("Backend", "Acme", <<"ts">>, c1)>>,
        <<"k2", P2Raw("Data", "Globex", <<"go">>, c2)>> >> :
        c1 \in {"USD", "XXX"}, c2 \in {"USD", "XXX"}}

CallProvider2Load ==
    /\ call = NoCall
    /\ \E response \in P2Responses \cup {[error |-> FALSE, jobsList |-> l] : l \in P2Pairs} :
          call' = [fn |-> "Provider2.load", arg |-> response,
                   result |-> Provider2load(response)]
    /\ UNCHANGED <<loadVars, schedVars>>

\* parseSalaryRange, and toSalaryRange of what it gave
CallParseSalaryRange ==
    /\ call = NoCall
    /\ \E rangeString \in SalaryTexts :
          LET parsed == parseSalaryRange(rangeString)
          IN call' = [fn |-> "parseSalaryRange", arg |-> rangeString,
                      result |-> parsed,
                      back |-> IF parsed.ok THEN toSalaryRange(parsed.value) ELSE parsed]
    /\ UNCHANGED <<loadVars, schedVars>>

CallGenerateLocation ==
    /\ call = NoCall
    /\ \E locationString \in Texts :
          call' = [fn |-> "generateLocation", arg |-> locationString,
                   result |-> generateLocation(locationString)]
    /\ UNCHANGED <<loadVars, schedVars>>

\* toJob, and fromJob of what it gave
CallProvider1ToJob ==
    /\ call = NoCall
    /\ \E data \in P1Inputs :
          LET job == Provider1toJob(data)
          IN call' = [fn |-> "Provider1.toJob", arg |-> data, result |-> job,
                      back |-> IF job.ok THEN Provider1fromJob(job.value) ELSE job]
    /\ UNCHANGED <<loadVars, schedVars>>

CallProvider2ToJob ==
    /\ call = NoCall
    /\ \E entry \in P2Inputs, zone \in Zones :
          LET job == Provider2toJob(entry)
          IN call' = [fn |-> "Provider2.toJob", arg |-> entry, zone |-> zone,
                      result |-> job,
                      back |-> IF job.ok THEN Provider2fromJob(job.value, zone) ELSE job]
    /\ UNCHANGED <<loadVars, schedVars>>

CallGetJobType ==
    /\ call = NoCall
    /\ \E type \in Types :
          call' = [fn |-> "Provider1.getJobType", arg |-> type,
                   result |-> getJobType(type)]
    /\ UNCHANGED <<loadVars, schedVars>>

CallProvidersServiceLoad ==
    /\ call = NoCall
    /\ \E response1 \in P1Responses, response2 \in P2Responses :
          call' = [fn |-> "ProvidersService.load",
                   arg |-> <<response1, response2>>,
                   result |-> ProvidersServiceLoadOf(response1, response2)]
    /\ UNCHANGED <<loadVars, schedVars>>

CallProvider1FromJob ==
    /\ call = NoCall
    /\ \E data \in NormalizedJobs :
          call' = [fn |-> "Provider1.fromJob", arg |-> data,
                   result |-> Provider1fromJob(data)]
    /\ UNCHANGED <<loadVars, schedVars>>

CallProvider2FromJob ==
    /\ call = NoCall
    /\ \E data \in NormalizedJobs, zone \in Zones :
          call' = [fn |-> "Provider2.fromJob", arg |-> data, zone |-> zone,
                   result |-> Provider2fromJob(data, zone)]
    /\ UNCHANGED <<loadVars, schedVars>>

NextAdapters ==
    \/ CallProvider1Load
    \/ CallProvider2Load
    \/ CallParseSalaryRange
    \/ CallGenerateLocation
    \/ CallGetJobType
    \/ CallProvidersServiceLoad
    \/ CallProvider2ToJob
    \/ CallProvider1ToJob
    \/ CallProvider1FromJob
    \/ CallProvider2FromJob

SpecAdapters == Init /\ [][NextAdapters]_vars

\* ------------------------------------------- scheduler and settings calls
MaxTimers == 3

MaxTicks == 3

\* 9999, 10000 and 30000 ms, and 3000000000 ms
Delays == {Number(9999), Number(10000), Number(30000), Huge}

SettingValues == {Number(9999), Number(10000), Number(30000), Number(86400000),
                  Number(86400001), Huge, NaN, StringValue, JsNull}

IntervalNames == {JobFetch, "Other"}

\* SchedulerService.addJobFetchInterval(milliseconds)
AddJobFetchInterval ==
    /\ created < MaxTimers
    /\ \E milliseconds \in Delays :
          LET r == addJobFetchInterval(intervals, timers, created + 1, milliseconds)
          IN /\ intervals' = r.intervals
             /\ timers' = r.timers
             /\ created' = IF r.created THEN created + 1 ELSE created
             /\ call' = [fn |-> "addJobFetchInterval", arg |-> milliseconds,
                         result |-> [threw |-> r.threw, returned |-> r.returned]]
    /\ UNCHANGED <<loadVars, settings, initStep, running, ticks, rejected, unhandled>>

\* SchedulerService.deleteInterval(name)
DeleteInterval ==
    /\ \E name \in IntervalNames :
          LET r == deleteInterval(intervals, timers, name)
          IN /\ intervals' = r.intervals
             /\ timers' = r.timers
             /\ call' = [fn |-> "deleteInterval", arg |-> name,
                         result |-> [threw |-> FALSE, returned |-> r.returned]]
    /\ UNCHANGED <<loadVars, settings, created, initStep, running, ticks, rejected,
                   unhandled>>

\* onModuleInit, first half: await this.settingsService.getSetting(...)
InitRead ==
    /\ initStep.pc = "start"
    /\ initStep' = [pc |-> "read",
                    value |-> getSetting(settings, JobFetchScheduleInterval)]
    /\ call' = [fn |-> "onModuleInit", arg |-> "getSetting",
                result |-> [threw |-> FALSE, returned |-> TRUE]]
    /\ UNCHANGED <<loadVars, settings, intervals, timers, created, running, ticks,
                   rejected, unhandled>>

\* onModuleInit, second half: if (schedulerInterval) addJobFetchInterval(...),
\* whose BadRequestException onModuleInit catches and logs
InitAdd ==
    /\ initStep.pc = "read"
    /\ created < MaxTimers
    /\ initStep' = [initStep EXCEPT !.pc = "done"]
    /\ LET r == addJobFetchInterval(intervals, timers, created + 1, initStep.value)
       IN IF Truthy(initStep.value)
          THEN /\ intervals' = r.intervals
               /\ timers' = r.timers
               /\ created' = IF r.created THEN created + 1 ELSE created
          ELSE UNCHANGED <<intervals, timers, created>>
    /\ call' = [fn |-> "onModuleInit", arg |-> "addJobFetchInterval",
                result |-> [threw |-> FALSE, returned |-> TRUE]]
    /\ UNCHANGED <<loadVars, settings, running, ticks, rejected, unhandled>>

\* onApplicationShutdown: deleteInterval for every registered name
OnApplicationShutdown ==
    /\ intervals' = {entry \in intervals : entry.name \notin getAllIntervals(intervals)}
    /\ timers' = {t \in timers : \A entry \in intervals : entry.timer # t.id}
    /\ call' = [fn |-> "onApplicationShutdown", arg |-> "signal",
                result |-> [threw |-> FALSE, returned |-> TRUE]]
    /\ UNCHANGED <<loadVars, settings, created, initStep, running, ticks, rejected,
                   unhandled>>

\* SettingsService.setSetting(JobFetchScheduleInterval, value)
SetSetting ==
    /\ \E value \in SettingValues :
          LET r == setSetting(settings, JobFetchScheduleInterval, value)
          IN /\ settings' = r.table
             /\ call' = [fn |-> "setSetting", arg |-> value,
                         result |-> [threw |-> ~r.ok, returned |-> r.ok,
                                     error |-> r.error, repository |-> r.repository]]
    /\ UNCHANGED <<loadVars, intervals, timers, created, initStep, running, ticks,
                   rejected, unhandled>>

\* the migration that seeds the setting, reverted and run again
MigrationDown ==
    /\ settings # SeedDown(settings)
    /\ settings' = SeedDown(settings)
    /\ call' = [fn |-> "migration", arg |-> "down",
                result |-> [threw |-> FALSE, returned |-> TRUE]]
    /\ UNCHANGED <<loadVars, intervals, timers, created, initStep, running, ticks,
                   rejected, unhandled>>

MigrationUp ==
    /\ settings # SeedUp(settings)
    /\ settings' = SeedUp(settings)
    /\ call' = [fn |-> "migration", arg |-> "up",
                result |-> [threw |-> FALSE, returned |-> TRUE]]
    /\ UNCHANGED <<loadVars, intervals, timers, created, initStep, running, ticks,
                   rejected, unhandled>>

\* a running timer fires: its callback starts and awaits jobsService.load().
\* Nothing keeps a timer from firing while an earlier callback still waits.
Tick(r) ==
    /\ ticks < MaxTicks
    /\ running[r] = "idle"
    /\ \E t \in timers :
          call' = [fn |-> "tick", arg |-> t.id,
                   result |-> [threw |-> FALSE, returned |-> TRUE,
                               rejectedBefore |-> rejected]]
    /\ running' = [running EXCEPT ![r] = "load"]
    /\ ticks' = ticks + 1
    /\ UNCHANGED <<loadVars, settings, intervals, timers, created, initStep, rejected,
                   unhandled>>

\* the load() a callback awaits settles, resolved or rejected, and the
\* callback ends
LoadSettles(r) ==
    /\ running[r] = "load"
    /\ \E failed \in BOOLEAN :
          /\ rejected' = IF failed THEN rejected + 1 ELSE rejected
          /\ unhandled' = (unhandled \/ callback(failed).escaped)
          /\ call' = [fn |-> "callback", arg |-> failed,
                      result |-> [threw |-> callback(failed).escaped,
                                  returned |-> ~callback(failed).escaped,
                                  logged |-> callback(failed).logged]]
    /\ running' = [running EXCEPT ![r] = "idle"]
    /\ UNCHANGED <<loadVars, settings, intervals, timers, created, initStep, ticks>>

NextScheduler ==
    \/ AddJobFetchInterval
    \/ DeleteInterval
    \/ InitRead
    \/ InitAdd
    \/ OnApplicationShutdown
    \/ SetSetting
    \/ MigrationDown
    \/ MigrationUp
    \/ \E r \in TickRuns : Tick(r)
    \/ \E r \in TickRuns : LoadSettles(r)

SpecScheduler == Init /\ [][NextScheduler]_vars

\* ----------------------------------------------------------------- claims
ProviderRefs(p) == {jobEntities[p][i].provider : i \in 1..Len(jobEntities[p])}

JobSaveStepOf(p) == pc[p] = "jobSave" /\ pc'[p] # "jobSave"

\* C1: in every reachable state, whatever loads succeeded or failed and
\* however they interleaved, no two rows of jobs have the same
\* (provider.name, provider.jobId).
C1_UniqueProviderReference ==
    \A r1, r2 \in jobs : r1.provider = r2.provider => r1 = r2

\* two overlapping runs carried the same reference; one saved it, the other
\* was rejected at the job save
C1_Witness ==
    \E p, q \in Runs :
        /\ pc[p] = "returned" /\ pc[q] = "thrown"
        /\ logged[q] = "QueryFailedError jobs"
        /\ ProviderRefs(p) \cap ProviderRefs(q) # {}

\* C2: the job save upserts: with a batch of pairwise different references,
\* some of them already stored, load() resolves, the stored row keeps its id and is the
\* only row of that reference, and takes a title of the batch; a reference
\* not yet stored is inserted.
C2_UpsertByProviderReference ==
    [][\A p \in Runs :
          (JobSaveStepOf(p) /\ Cardinality(ProviderRefs(p)) = Len(jobEntities[p])) =>
          /\ pc'[p] = "returned"
          /\ \A i \in 1..Len(jobEntities[p]) :
                LET job == jobEntities[p][i]
                IN /\ \E row \in jobs' : row.provider = job.provider
                   /\ \A old \in jobs : old.provider = job.provider =>
                         \E row \in jobs' :
                            /\ row.id = old.id
                            /\ row.provider = old.provider
                            /\ \E k \in 1..Len(jobEntities[p]) :
                                  /\ jobEntities[p][k].provider = job.provider
                                  /\ row.title = jobEntities[p][k].title
                            /\ \A other \in jobs' :
                                  other.provider = row.provider => other = row]_vars

\* C3: a job save whose batch holds an already stored reference has one
\* outcome only, the rejection: load() rejects on the QueryFailedError of the
\* job save and the jobs table is left as it was (no second row, no silent
\* skip reported as success).
C3_OverlapAlwaysRejected ==
    [][\A p \in Runs :
          (JobSaveStepOf(p) /\ \E ref \in ProviderRefs(p) : RefTaken(jobs, ref)) =>
              /\ pc'[p] = "thrown"
              /\ logged'[p] = "QueryFailedError jobs"
              /\ outcome'[p] = Rejected
              /\ jobs' = jobs]_vars

\* a later load, with no other run in flight, was rejected on a reference an
\* earlier load had stored
C3_Witness ==
    \E p \in Runs :
        /\ pc[p] = "thrown" /\ logged[p] = "QueryFailedError jobs"
        /\ \A q \in Runs \ {p} : pc[q] = "idle"
        /\ loads >= 2
        /\ \E ref \in ProviderRefs(p) : RefTaken(jobs, ref)

\* C4: a run that loses the race to create a company or a skill adopts the
\* winner's row and completes; no load() is ever rejected on a creation
\* conflict.
C4_CreateConflictNeverSurfaces ==
    \A p \in Runs :
        logged[p] \notin {"QueryFailedError companies", "QueryFailedError skills"}

\* C5: after any interleaving of runs there is at most one companies row per
\* name and at most one skills row per name.
C5_UniqueNaturalKeys ==
    /\ \A c1, c2 \in companies : c1.name = c2.name => c1 = c2
    /\ \A s1, s2 \in skills : s1.name = s2.name => s1 = s2

\* a run found a company name absent and then lost the insert to another run
C5_Witness ==
    \E p \in Runs :
        /\ pc[p] = "thrown" /\ logged[p] = "QueryFailedError companies"
        /\ \E n \in Range(newCompanyEntities[p]) : \E c \in companies : c.name = n

\* rows this run inserted into companies / skills
CreatedCompanies(p) ==
    {companiesMap[p][n] : n \in Range(newCompanyEntities[p]) \cap DOMAIN companiesMap[p]}

CreatedSkills(p) ==
    {skillsMap[p][n] : n \in Range(newSkillEntities[p]) \cap DOMAIN skillsMap[p]}

\* C6: a rejected load() leaves nothing behind: no companies or skills row
\* the run created is still stored.
C6_NoPartialCommit ==
    \A p \in Runs : pc[p] = "thrown" =>
        /\ CreatedCompanies(p) \cap companies = {}
        /\ CreatedSkills(p) \cap skills = {}

\* C7: when the job save fails, load() rejects and the jobs table is exactly
\* what it was before the save: no job of the batch is stored by it.
C7_JobSaveAllOrNothing ==
    [][\A p \in Runs : (JobSaveStepOf(p) /\ pc'[p] = "thrown") =>
          /\ outcome'[p] = Rejected
          /\ jobs' = jobs]_vars

\* a rejected job save whose batch also held a reference that is not stored
C7_Witness ==
    \E p \in Runs :
        /\ pc[p] = "thrown" /\ logged[p] = "QueryFailedError jobs"
        /\ Len(jobEntities[p]) >= 2
        /\ \E ref \in ProviderRefs(p) : ~RefTaken(jobs, ref)

\* C8: when an adapter's fetch or payload is bad, load() rejects and the run
\* has issued no storage read or write at all.
C8_FailFast ==
    \A p \in Runs : upstreamFailed[p] =>
        /\ pc[p] = "thrown"
        /\ outcome[p] = Rejected
        /\ queries[p] = NoQueries

\* adapter 2 failed after adapter 1 had produced jobs
C8_Witness ==
    \E p \in Runs :
        /\ upstreamFailed[p] /\ pc[p] = "thrown"
        /\ Len(jobEntities[p]) > 0

\* C9: when both adapters resolve with no jobs, load() resolves with the
\* empty list and the run issues no storage read or write.
C9_EmptyBatch ==
    \A p \in Runs :
        (pc[p] \notin {"idle", "provider1", "provider2"}
            /\ ~upstreamFailed[p] /\ Len(jobEntities[p]) = 0) =>
            /\ pc[p] = "returned"
            /\ outcome[p] = Resolved(<<>>)
            /\ queries[p] = NoQueries

\* an empty load settled while rows of an earlier load are stored
C9_Witness ==
    \E p \in Runs :
        /\ pc[p] = "returned" /\ Len(jobEntities[p]) = 0
        /\ jobs # {} /\ companies # {} /\ skills # {}

\* findOrCreateCompanies of the run has returned
CompaniesResolved(p) ==
    \/ pc[p] \in {"skFind", "skSave", "jobSave"}
    \/ pc[p] = "returned" /\ Len(jobEntities[p]) > 0
    \/ pc[p] = "thrown" /\ logged[p] \in {"QueryFailedError skills", "QueryFailedError jobs"}

\* findOrCreateSkills of the run has returned
SkillsResolved(p) ==
    \/ pc[p] = "jobSave"
    \/ pc[p] = "returned" /\ Len(jobEntities[p]) > 0
    \/ pc[p] = "thrown" /\ logged[p] = "QueryFailedError jobs"

\* C10: a run never issues more than one bulk read or one bulk create per
\* entity kind; once a kind is resolved the run has issued exactly one read
\* for it, one create exactly when some name was not found, and the map of
\* that kind has exactly the distinct names of the batch as its keys.
C10_BulkReconcile ==
    \A p \in Runs :
        /\ queries[p].coFind <= 1 /\ queries[p].coSave <= 1
        /\ queries[p].skFind <= 1 /\ queries[p].skSave <= 1
        /\ CompaniesResolved(p) =>
            /\ queries[p].coFind = 1
            /\ queries[p].coSave = (IF Len(newCompanyEntities[p]) > 0 THEN 1 ELSE 0)
            /\ DOMAIN companiesMap[p] =
                  {jobEntities[p][i].company.name : i \in 1..Len(jobEntities[p])}
        /\ SkillsResolved(p) =>
            /\ queries[p].skFind = 1
            /\ queries[p].skSave = (IF Len(newSkillEntities[p]) > 0 THEN 1 ELSE 0)
            /\ DOMAIN skillsMap[p] =
                  UNION {{s.name : s \in Range(jobEntities[p][i].skills)} :
                            i \in 1..Len(jobEntities[p])}

\* three jobs naming two companies, both created by this run in one write
C10_Witness ==
    \E p \in Runs :
        /\ pc[p] = "jobSave"
        /\ Len(jobEntities[p]) = 3
        /\ Cardinality(DOMAIN companiesMap[p]) = 2
        /\ Len(newCompanyEntities[p]) = 2
        /\ queries[p].coSave = 1

\* the rows a successful job save of run p returns, in batch order
SavedJobsOf(p) == outcome'[p].value

FindCompaniesStepOf(p) == pc[p] = "coFind" /\ pc'[p] # "coFind"

FindSkillsStepOf(p) == pc[p] = "skFind" /\ pc'[p] # "skFind"

\* C11: a company or skill name that has a row when the run reads the table
\* (so every name that had one before load() started, rows never being
\* deleted) is reused: the read maps the name to that row and does not list
\* it for creation, no row is created under a name that is stored, and the
\* jobs a successful run saves carry the id of the row their name is mapped
\* to, the same one for every job of the batch with that name.
C11_ExistingRowsReused ==
    [][\A p \in Runs :
          /\ FindCompaniesStepOf(p) =>
                \A row \in companies :
                    row.name \in Range(companyNamesOf(jobEntities[p])) =>
                        /\ row.name \notin Range(newCompanyEntities'[p])
                        /\ companiesMap'[p][row.name] = row
          /\ FindSkillsStepOf(p) =>
                \A row \in skills :
                    row.name \in Range(skillNamesOf(jobEntities[p])) =>
                        /\ row.name \notin Range(newSkillEntities'[p])
                        /\ skillsMap'[p][row.name] = row
          /\ \A new \in companies' \ companies : \A row \in companies : row.name # new.name
          /\ \A new \in skills' \ skills : \A row \in skills : row.name # new.name
          /\ (pc[p] \in {"coSave", "skSave"} /\ pc'[p] \notin {"thrown", "idle"}) =>
                /\ \A n \in DOMAIN companiesMap[p] : companiesMap'[p][n] = companiesMap[p][n]
                /\ \A n \in DOMAIN skillsMap[p] : skillsMap'[p][n] = skillsMap[p][n]
          /\ (JobSaveStepOf(p) /\ pc'[p] = "returned") =>
                \A i \in 1..Len(jobEntities[p]) :
                    LET dto == jobEntities[p][i]
                        saved == SavedJobsOf(p)[i]
                    IN /\ saved.company = <<companiesMap[p][dto.company.name].id>>
                       /\ companiesMap[p][dto.company.name] \in companies
                       /\ saved.skills =
                            [k \in 1..Len(dto.skills) |-> skillsMap[p][dto.skills[k].name].id]
                       /\ \A k \in 1..Len(dto.skills) :
                              skillsMap[p][dto.skills[k].name] \in skills
                       /\ \A j \in 1..Len(jobEntities[p]) :
                              jobEntities[p][j].company.name = dto.company.name =>
                                  SavedJobsOf(p)[j].company = saved.company
      ]_vars

\* a run saved two jobs of one company, every company and skill of its
\* batch having been stored before it read the tables
C11_Witness ==
    \E p \in Runs :
        /\ pc[p] = "returned"
        /\ newCompanyEntities[p] = <<>> /\ newSkillEntities[p] = <<>>
        /\ \E i, j \in 1..Len(jobEntities[p]) :
              i # j /\ jobEntities[p][i].company.name = jobEntities[p][j].company.name

\* C12: every job a run hands to the job save references resolved identities
\* only: its company is a stored row of companies whose name is the raw
\* company name, and its skills are, one for each raw skill name and in the
\* same order, the stored rows of skills of those names; none is dropped.
C12_ResolvedIdentities ==
    \A p \in Runs : pc[p] = "jobSave" =>
        \A i \in 1..Len(jobEntities[p]) :
            LET dto == jobEntities[p][i]
                job == jobsToSaveOf(p)[i]
            IN /\ Len(job.company) = 1
               /\ job.company[1] \in companies
               /\ job.company[1].name = dto.company.name
               /\ Len(job.skills) = Len(dto.skills)
               /\ \A k \in 1..Len(dto.skills) :
                      /\ job.skills[k] \in skills
                      /\ job.skills[k].name = dto.skills[k].name

\* a run is about to save a batch of two jobs, one of them with two skills
C12_Witness ==
    \E p \in Runs :
        /\ pc[p] = "jobSave"
        /\ Len(jobEntities[p]) >= 2
        /\ \E i \in 1..Len(jobEntities[p]) : Len(jobEntities[p][i].skills) = 2

\* C13: whatever step of load() failed, the promise is rejected with an
\* InternalServerErrorException carrying the fixed message, so every failed
\* run hands its caller the same thing, and nothing of the underlying error.
C13_SameRejection ==
    \A p \in Runs :
        /\ pc[p] = "thrown" =>
              /\ outcome[p].state = "rejected"
              /\ outcome[p].error = "InternalServerErrorException"
              /\ outcome[p].message = "An error occurred while loading jobs."
              /\ DOMAIN outcome[p] = {"state", "error", "message"}
        /\ outcome[p].state = "rejected" => pc[p] = "thrown"

\* two runs have failed, one on a storage error and one on an upstream error
C13_Witness ==
    \E p, q \in Runs :
        /\ pc[p] = "thrown" /\ pc[q] = "thrown"
        /\ logged[p] = "QueryFailedError jobs"
        /\ logged[q] = "InternalServerErrorException"

\* the messages of the RuntimeExceptions toJob throws for a field it cannot map
NormalizationErrors ==
    {"Invalid salary range format. Expected format: $minK - $maxK",
     "Minimum value cannot be greater than the maximum value.",
     "Invalid location format. Expected format: City, State.",
     "Invalid job type",
     "Unsupported currency"}

PersistenceErrors ==
    {"QueryFailedError companies", "QueryFailedError skills", "QueryFailedError jobs"}

\* the kind of error that made run p fail
KindOf(p) ==
    CASE fault[p] = "fetch" -> "transport"
      [] fault[p] = "record" -> "normalization"
      [] OTHER -> "persistence"

\* C14 as claimed: two failed runs whose errors are of different kinds hand
\* their callers different things.
C14_KindSurfacedToCaller ==
    \A p, q \in Runs :
        (pc[p] = "thrown" /\ pc[q] = "thrown" /\ KindOf(p) # KindOf(q)) =>
            outcome[p] # outcome[q]

\* C14 amended: the kind of error shows in what load() hands to its logger
\* and nowhere else: the adapter's InternalServerErrorException for a failed
\* fetch, the adapter's message about the field for a record that cannot be
\* mapped, the storage error for a failed save; the callers of two failed
\* runs get the same thing whatever the kinds.
C14_KindLoggedOnly ==
    \A p \in Runs : pc[p] = "thrown" =>
        /\ fault[p] = "fetch" <=> logged[p] = "InternalServerErrorException"
        /\ fault[p] = "record" <=> logged[p] \in NormalizationErrors
        /\ fault[p] = "none" <=> logged[p] \in PersistenceErrors
        /\ \A q \in Runs : pc[q] = "thrown" => outcome[q] = outcome[p]

\* two runs have failed, one on a record that cannot be mapped and one on a
\* save
C14_Witness ==
    \E p, q \in Runs :
        /\ pc[p] = "thrown" /\ pc[q] = "thrown"
        /\ fault[p] = "record"
        /\ fault[q] = "none"

\* C15: when any one record of a fetched payload cannot be mapped, the load()
\* of that adapter, Provider1 or Provider2, throws and so gives no job at
\* all, whatever the other records of the payload are.
C15_OneBadRecordFailsAll ==
    /\ (/\ call.fn = "Provider1.load"
        /\ ~call.arg.error
        /\ \E i \in 1..Len(call.arg.jobs) : ~Provider1toJob(call.arg.jobs[i]).ok) =>
            (~call.result.ok /\ "jobs" \notin DOMAIN call.result)
    /\ (/\ call.fn = "Provider2.load"
        /\ ~call.arg.error
        /\ \E i \in 1..Len(call.arg.jobsList) : ~Provider2toJob(call.arg.jobsList[i]).ok) =>
            (~call.result.ok /\ "jobs" \notin DOMAIN call.result)

\* Provider1.load() was called on a payload of a record that maps followed by
\* one that does not, and threw
C15_Witness ==
    /\ call.fn = "Provider1.load"
    /\ ~call.arg.error
    /\ Len(call.arg.jobs) = 2
    /\ Provider1toJob(call.arg.jobs[1]).ok
    /\ ~Provider1toJob(call.arg.jobs[2]).ok
    /\ ~call.result.ok

\* the number a side of a salary string writes: n, or n thousand with a suffix
Written(n, k) == IF k # "" THEN n * 1000 ELSE n

\* C16: a job that toJob of either adapter returns has salary.min <=
\* salary.max, and so has the salary parseSalaryRange returns; toJob throws
\* for a record whose salary string, or whose compensation, has min > max.
C16_MinNotAboveMax ==
    /\ (call.fn \in {"Provider1.toJob", "Provider2.toJob"} /\ call.result.ok) =>
            call.result.value.salary.min <= call.result.value.salary.max
    /\ (call.fn = "parseSalaryRange" /\ call.result.ok) =>
            call.result.value.min <= call.result.value.max
    /\ call.fn = "Provider1.toJob" =>
            LET text == call.arg.details.salaryRange
            IN Written(text.min, text.minK) > Written(text.max, text.maxK) =>
                   ~call.result.ok
    /\ call.fn = "Provider2.toJob" =>
            (call.arg[2].compensation.min > call.arg[2].compensation.max =>
                 ~call.result.ok)

\* Provider1's toJob was called on a record whose salary string is of the
\* right shape with min > max and whose other fields map, and threw
C16_Witness ==
    /\ call.fn = "Provider1.toJob"
    /\ salaryRegex(call.arg.details.salaryRange).match
    /\ Written(call.arg.details.salaryRange.min, call.arg.details.salaryRange.minK)
         > Written(call.arg.details.salaryRange.max, call.arg.details.salaryRange.maxK)
    /\ generateLocation(call.arg.details.location).ok
    /\ getJobType(call.arg.details.type).ok
    /\ ~call.result.ok

\* the currency codes of the table
Codes == {currencySymbolMap[key] : key \in DOMAIN currencySymbolMap}

WellFormed(text) ==
    /\ text.minSym \in RegexSymbols
    /\ text.maxSym = text.minSym
    /\ text.minK \in {"", "k"}
    /\ text.maxK \in {"", "k"}
    /\ Written(text.min, text.minK) <= Written(text.max, text.maxK)

\* a side written the way formatValue writes its value: thousands, from one
\* thousand on, with the suffix, and anything else in full
Canonical(n, k) ==
    IF k = "k" THEN n >= 1 ELSE ~(n >= 1000 /\ n % 1000 = 0)

\* C18 as claimed: toSalaryRange(parseSalaryRange(s)) = s for every
\* well-formed salary string s.
C18_RoundTripAll ==
    (call.fn = "parseSalaryRange" /\ WellFormed(call.arg)) =>
        /\ call.result.ok
        /\ call.back.ok
        /\ call.back.value = call.arg

\* C18 amended: toSalaryRange(parseSalaryRange(s)) = s for every well-formed
\* salary string s both sides of which are written canonically.
C18_RoundTripCanonical ==
    (/\ call.fn = "parseSalaryRange"
     /\ WellFormed(call.arg)
     /\ Canonical(call.arg.min, call.arg.minK)
     /\ Canonical(call.arg.max, call.arg.maxK)) =>
        /\ call.result.ok
        /\ call.back.ok
        /\ call.back.value = call.arg

\* "$69 - $141k" was parsed and written back as it was
C18_Witness ==
    /\ call.fn = "parseSalaryRange"
    /\ call.arg = SalaryText("$", 69, "", 141, "k")
    /\ call.result.ok
    /\ call.result.value = [min |-> 69, max |-> 141000, currency |-> "USD"]
    /\ call.back = Value(call.arg)

\* fromJob of an adapter throws for a job that names another provider
ForeignJobRefused ==
    /\ (call.fn = "Provider1.fromJob" /\ call.arg.provider.name # "Provider1") =>
            ~call.result.ok
    /\ (call.fn = "Provider2.fromJob" /\ call.arg.provider.name # "Provider2") =>
            ~call.result.ok

\* C19: for each adapter, fromJob(toJob(job)) = job for every job toJob
\* accepts, and fromJob throws for a job of another provider.
C19_RoundTripAll ==
    /\ (call.fn \in {"Provider1.toJob", "Provider2.toJob"} /\ call.result.ok) =>
            (call.back.ok /\ call.back.value = call.arg)
    /\ ForeignJobRefused

\* the two halves of a text at its first comma, trimmed; none when the text
\* has no comma
HalvesOf(text) ==
    LET i == IndexOfComma(text, 1)
    IN IF i = 0 THEN <<>>
       ELSE <<trim(SubSeq(text, 1, i - 1)), trim(SubSeq(text, i + 1, Len(text)))>>

\* C20: generateLocation splits the string on its first comma only: city is
\* the trimmed text before it and state the trimmed text of everything after
\* it, further commas included; it throws exactly when there is no comma or
\* one of the trimmed halves is empty.
C20_SplitOnFirstComma ==
    call.fn = "generateLocation" =>
        LET halves == HalvesOf(call.arg)
        IN IF halves = <<>> \/ halves[1] = <<>> \/ halves[2] = <<>>
           THEN ~call.result.ok
           ELSE /\ call.result.ok
                /\ call.result.value = [city |-> halves[1], state |-> halves[2]]

\* C21: Provider1's getJobType gives FullTime, PartTime or Contract exactly
\* for the strings that are 'full-time', 'part-time', 'contract' up to the
\* case of their letters; for every other string ('Internship', 'fulltime',
\* 'contract ' with a trailing blank, the empty string) it throws; it never
\* returns undefined or null.
FullTimeSpellings == {"full-time", "Full-Time", "FULL-TIME", "fUlL-tImE"}

PartTimeSpellings == {"part-time", "Part-Time", "PART-TIME"}

ContractSpellings == {"contract", "Contract", "CONTRACT"}

C21_JobTypeTotal ==
    call.fn = "Provider1.getJobType" =>
        /\ call.arg \in FullTimeSpellings => call.result = Value("Full-Time")
        /\ call.arg \in PartTimeSpellings => call.result = Value("Part-Time")
        /\ call.arg \in ContractSpellings => call.result = Value("Contract")
        /\ call.arg \notin FullTimeSpellings \cup PartTimeSpellings
                                             \cup ContractSpellings =>
              call.result = Throw("Invalid job type")
        /\ call.result.ok =>
              call.result.value \in {"Full-Time", "Part-Time", "Contract"}

\* 'Internship' was refused
C21_Witness ==
    /\ call.fn = "Provider1.getJobType"
    /\ call.arg = "Internship"
    /\ ~call.result.ok

\* C22: when both adapters succeed, ProvidersService.load() has called each
\* adapter's load() exactly once and resolves with the jobs of adapter 1
\* followed by the jobs of adapter 2, every job as the adapter returned it:
\* the length is the sum of both lengths, and an adapter without jobs leaves
\* just the other's.
C22_ConcatenatesBoth ==
    call.fn = "ProvidersService.load" =>
        LET one == Provider1load(call.arg[1])
            two == Provider2load(call.arg[2])
        IN (one.ok /\ two.ok) =>
              /\ call.result.ok
              /\ call.result.invoked = <<"Provider1", "Provider2">>
              /\ Len(call.result.jobs) = Len(one.jobs) + Len(two.jobs)
              /\ \A i \in 1..Len(one.jobs) : call.result.jobs[i] = one.jobs[i]
              /\ \A i \in 1..Len(two.jobs) :
                    call.result.jobs[Len(one.jobs) + i] = two.jobs[i]

\* both adapters returned jobs
C22_Witness ==
    /\ call.fn = "ProvidersService.load"
    /\ call.result.ok
    /\ Provider1load(call.arg[1]).jobs # <<>>
    /\ Provider2load(call.arg[2]).jobs # <<>>
    /\ Len(call.result.jobs) >= 2

\* C28: ProvidersService.load() runs the adapters in sequence: adapter 1's
\* load() is called first, adapter 2's load() is called only after adapter
\* 1's has resolved, and when adapter 1's load() rejects (failed fetch or
\* unmappable record) adapter 2's load() is not called at all and the call
\* rejects with adapter 1's error.
C28_AdaptersInSequence ==
    call.fn = "ProvidersService.load" =>
        /\ call.result.invoked[1] = "Provider1"
        /\ ~Provider1Fails(call.arg[1]) =>
              call.result.invoked = <<"Provider1", "Provider2">>
        /\ Provider1Fails(call.arg[1]) =>
              /\ call.result.invoked = <<"Provider1">>
              /\ ~call.result.ok
              /\ call.result.error = Provider1load(call.arg[1]).error

\* adapter 1 rejected on a record while adapter 2's upstream had jobs to give
C28_Witness ==
    /\ call.fn = "ProvidersService.load"
    /\ ~call.arg[1].error /\ Provider1Fails(call.arg[1])
    /\ ~Provider2Fails(call.arg[2]) /\ call.arg[2].jobsList # <<>>
    /\ ~call.result.ok
    /\ call.result.invoked = <<"Provider1">>

\* C29: every step of load() leaves the Company rows it found as they were
\* (same id, name, industry, website) and every Company row it adds has
\* neither industry nor website, whatever the adapters put on the company of
\* the canonical jobs (Provider1 an industry, Provider2 a website).
C29_CompanyFromNameAlone ==
    [][/\ \A row \in companies : row \in companies'
       /\ \A row \in companies' \ companies :
             /\ row.industry = NULL
             /\ row.website = NULL
             /\ \E p \in Runs : pc[p] = "coSave" /\ row.name \in Range(newCompanyEntities[p])]_vars

\* a run whose jobs carried an industry or a website for the company has
\* finished, having created the row or found the row of an earlier run, and
\* the row has neither
C29_Witness ==
    \E p, q \in Runs :
        /\ pc[p] = "returned" /\ pc[q] = "returned" /\ p # q
        /\ \E i \in 1..Len(jobEntities[p]), k \in 1..Len(jobEntities[q]) :
              /\ jobEntities[p][i].company.industry = "Tech"
              /\ jobEntities[q][k].company.website = "https://acme.example"
              /\ jobEntities[q][k].company.name = jobEntities[p][i].company.name
              /\ \E row \in companies :
                    /\ row.name = jobEntities[p][i].company.name
                    /\ row.industry = NULL /\ row.website = NULL

\* the timers of the intervals registered under 'JobFetch'
JobFetchTimers ==
    {t \in timers : \E entry \in intervals :
                        entry.name = JobFetch /\ entry.timer = t.id}

\* C23: the scheduler registry never holds more than one interval named
\* 'JobFetch' and no timer runs besides the registered one; after an
\* addJobFetchInterval(ms) that returned true exactly one 'JobFetch' interval
\* is registered, the one just created, and its period is ms.
C23_OneIntervalWithPeriod ==
    /\ Cardinality({entry \in intervals : entry.name = JobFetch}) <= 1
    /\ Cardinality(timers) <= 1
    /\ (call.fn = "addJobFetchInterval" /\ call.result.returned) =>
          /\ Cardinality(JobFetchTimers) = 1
          /\ \A t \in JobFetchTimers : t.id = created /\ Number(t.period) = call.arg

\* C24: addJobFetchInterval(ms) with ms < 10000 throws and changes neither
\* the registry nor the timers, and every registered 'JobFetch' interval
\* has a period of at least 10000 ms.
C24_MinimumPeriod ==
    [][/\ (call'.fn = "addJobFetchInterval"
           /\ LessThan(call'.arg, DEFAULT_MIN_INTERVAL)) =>
             /\ call'.result.threw
             /\ intervals' = intervals /\ timers' = timers /\ created' = created
       /\ \A entry \in intervals' : \A t \in timers' :
             (entry.name = JobFetch /\ entry.timer = t.id) =>
                t.period >= DEFAULT_MIN_INTERVAL]_vars

InRange(value) ==
    value.kind = "number" /\ value.n >= 10000 /\ value.n <= 86400000

C26_NoOverlap ==
    Cardinality({r \in TickRuns : running[r] = "load"}) <= 1

\* C27: when the load() of a tick settles, rejected or not, nothing leaves the
\* callback (a rejection is logged there), the registry and the timers stay
\* as they are, and a tick that fires afterwards starts a load() again.
C27_FailureStaysInCallback ==
    [][/\ \A r \in TickRuns : (running[r] = "load" /\ running'[r] = "idle") =>
             /\ ~call'.result.threw
             /\ ~unhandled'
             /\ call'.arg => call'.result.logged =
                               "Error executing scheduled job fetch JobFetch"
             /\ intervals' = intervals /\ timers' = timers
       /\ call'.fn = "tick" =>
             \E r \in TickRuns : running[r] = "idle" /\ running'[r] = "load"]_vars

\* a tick started a load() after an earlier tick's load() had rejected, the
\* interval still registered
C27_Witness ==
    /\ call.fn = "tick"
    /\ call.result.rejectedBefore >= 1
    /\ \E t \in JobFetchTimers : t.id = call.arg
    /\ \E r \in TickRuns : running[r] = "load"
    /\ ~unhandled

\* C30: setSetting leaves the registry and the timers as they are, and
\* addJobFetchInterval, deleteInterval and the ticks leave the stored setting
\* as it is; only onModuleInit reads the stored value, and registers the
\* 'JobFetch' interval with it.
C30_CoupledOnlyAtInit ==
    [][/\ call'.fn = "setSetting" =>
             intervals' = intervals /\ timers' = timers /\ created' = created
       /\ call'.fn \in {"addJobFetchInterval", "deleteInterval", "tick",
                         "callback", "onApplicationShutdown", "onModuleInit"} =>
             settings' = settings
       /\ (call'.fn = "onModuleInit" /\ call'.arg = "getSetting") =>
             \A row \in settings : initStep'.value = row.value
       /\ (call'.fn = "onModuleInit" /\ call'.arg = "addJobFetchInterval"
           /\ InRange(initStep.value)) =>
             \E t \in timers' :
                /\ t.delay = initStep.value
                /\ \E entry \in intervals' :
                      entry.name = JobFetch /\ entry.timer = t.id]_vars

\* setSetting stored 30000 while the interval registered at start-up with
\* the seeded 10000 keeps running with that period
C30_Witness ==
    /\ call.fn = "setSetting" /\ call.result.returned
    /\ initStep.pc = "done" /\ initStep.value = Number(10000)
    /\ \A row \in settings : row.value = Number(30000)
    /\ settings # {}
    /\ \E t \in JobFetchTimers : t.period = 10000

====
